---- MODULE Spec2Model ----
(***************************************************************************)
(* Vault indexer and search engine of GraphNotes                           *)
(* (src-tauri/src/commands/files.rs, src-tauri/src/commands/search.rs).    *)
(*                                                                         *)
(* Strings are sequences of one-character strings, so that starts_with,    *)
(* extension, to_lowercase, join, strip_prefix, lines and regex matching   *)
(* are computed rather than assumed.                                       *)
(***************************************************************************)
EXTENDS Integers, Sequences, FiniteSets, TLC

VARIABLES fs, pc, op, path, pattern, max, regex, walk, relative_path,
          lines, line_idx, matches, result, event

vars == <<fs, pc, op, path, pattern, max, regex, walk, relative_path,
          lines, line_idx, matches, result, event>>

(***************************************************************************)
(* Bounds                                                                  *)
(***************************************************************************)
\* largest explicit max_results a caller passes
MaxCap == 2

\* unwrap_or(100)
DefaultMax == 100

(***************************************************************************)
(* Characters and strings                                                  *)
(***************************************************************************)
\* the characters in use, in increasing byte order
Chars == <<"\n", "(", ")", "*", ".", "/", "B", "D", "S", "\\",
           "a", "b", "c", "d", "e", "g", "h", "i", "k", "m", "n", "o",
           "p", "r", "s", "t", "u", "v", "w", "x">>

Code(c) == CHOOSE i \in 1..Len(Chars) : Chars[i] = c

CharLower(c) == CASE c = "B" -> "b"
                  [] c = "D" -> "d"
                  [] c = "S" -> "s"
                  [] OTHER -> c

to_lowercase(s) == [i \in 1..Len(s) |-> CharLower(s[i])]

MinOf(S) == CHOOSE x \in S : \A y \in S : x <= y
MaxOf(S) == CHOOSE x \in S : \A y \in S : y <= x

\* Ord::cmp on strings: -1 Less, 0 Equal, 1 Greater (byte-wise lexicographic)
cmp(a, b) ==
    LET n == IF Len(a) < Len(b) THEN Len(a) ELSE Len(b)
        d == {i \in 1..n : a[i] # b[i]}
    IN  IF d = {}
        THEN IF Len(a) < Len(b) THEN -1 ELSE IF Len(a) > Len(b) THEN 1 ELSE 0
        ELSE IF Code(a[MinOf(d)]) < Code(b[MinOf(d)]) THEN -1 ELSE 1

starts_with(s, c) == Len(s) >= 1 /\ s[1] = c

GRAPHNOTES == <<".", "g", "r", "a", "p", "h", "n", "o", "t", "e", "s">>
MD == <<"m", "d">>
MARKDOWN == <<"m", "a", "r", "k", "d", "o", "w", "n">>

\* Path::extension of a file name: the part after the last '.', none when
\* there is no '.' or the only '.' is the leading one
extension(name) ==
    LET dots == {i \in 2..Len(name) : name[i] = "."}
    IN  IF dots = {} THEN [some |-> FALSE, ext |-> <<>>]
        ELSE [some |-> TRUE, ext |-> SubSeq(name, MaxOf(dots) + 1, Len(name))]

\* PathBuf::join / entry.path(): parent, separator, name
join(p, name) == p \o <<"/">> \o name

\* Path::file_name of a path string: the last component
file_name(p) ==
    LET seps == {i \in 1..Len(p) : p[i] = "/"}
    IN  IF seps = {} THEN p ELSE SubSeq(p, MaxOf(seps) + 1, Len(p))

IsPrefix(b, p) == Len(b) <= Len(p) /\ SubSeq(p, 1, Len(b)) = b

\* strip_prefix(base).map(to_string).unwrap_or_else(|_| full path)
strip_prefix(p, base) ==
    IF p = base THEN <<>>
    ELSE IF IsPrefix(base \o <<"/">>, p)
         THEN SubSeq(p, Len(base) + 2, Len(p))
         ELSE p

(***************************************************************************)
(* The filesystem snapshot                                                 *)
(***************************************************************************)
File(name, readable, content) ==
    [name |-> name, kind |-> "file", readable |-> readable,
     content |-> content, kids |-> <<>>]

Dir(name, readable, kids) ==
    [name |-> name, kind |-> "dir", readable |-> readable,
     content |-> <<>>, kids |-> kids]

Rev(s) == [i \in 1..Len(s) |-> s[Len(s) + 1 - i]]

\* directory enumeration order is the filesystem's, not sorted
Order(rev, s) == IF rev THEN Rev(s) ELSE s

\* an entry that may be missing from its directory
Opt(st, node) == IF st = "absent" THEN <<>> ELSE <<node>>

Status == {"ok", "unreadable", "absent"}

\* a vault: a.md, Sub and Sub/D are each readable, unreadable or absent
Vault(hiddenRoot, aSt, subSt, dSt, rev) ==
    Dir(IF hiddenRoot THEN <<".", "h">> ELSE <<"v">>, TRUE, Order(rev,
        Opt(aSt, File(<<"a", ".", "m", "d">>, aSt = "ok",
                      <<"a", "b", "\n", "a", "(", "b", "\n">>))
        \o <<File(<<"t", ".", "t", "x", "t">>, TRUE, <<"a", "b">>)>>
        \o Opt(subSt, Dir(<<"S", "u", "b">>, subSt = "ok", Order(rev,
               <<File(<<"c", ".", "m", "d">>, TRUE, <<"a", "(", "b">>)>>
               \o Opt(dSt, Dir(<<"D">>, dSt = "ok", <<
                      File(<<"e", ".", "m", "d">>, TRUE, <<"b", "a", "\n">>) >>)))))
        \o << Dir(<<".", "g", "i", "t">>, TRUE, <<
                  File(<<"n", ".", "m", "d">>, TRUE, <<"a", "b">>) >>),
              File(<<"B", ".", "m", "d">>, TRUE, <<"b", "\n", "\n", "a", "b">>),
              Dir(GRAPHNOTES, TRUE, <<
                  File(<<"g", ".", "m", "d">>, TRUE, <<"a", "b">>) >>) >>))

Vaults == {Vault(h, a, s, d, r) : h \in BOOLEAN, a \in Status, s \in Status,
                                  d \in Status, r \in BOOLEAN}

NoNode == [name |-> <<>>, kind |-> "none", readable |-> FALSE,
           content |-> <<>>, kids |-> <<>>]

\* a path argument of a command together with what it names on disk
Target(p, node) == [path |-> p, node |-> node]

VaultPath(v) == <<"/">> \o v.name

\* the paths a caller passes: the vault directory, a regular file x.md style
\* path inside it, and a path that does not exist
Targets(v) ==
    {Target(VaultPath(v), v)}
    \cup {Target(join(VaultPath(v), v.kids[i].name), v.kids[i]) :
              i \in {j \in 1..Len(v.kids) : v.kids[j].kind = "file"}}
    \cup {Target(<<"/", "n", "o">>, NoNode)}

exists(t) == t.node.kind # "none"
is_dir(t) == t.node.kind = "dir"
is_file(t) == t.node.kind = "file"

\* fs::read_dir: the entries of a readable directory, each with its path
read_dir(t) ==
    IF is_dir(t) /\ t.node.readable
    THEN [ok |-> TRUE,
          items |-> [i \in 1..Len(t.node.kids) |->
                        Target(join(t.path, t.node.kids[i].name), t.node.kids[i])]]
    ELSE [ok |-> FALSE, items |-> <<>>]

\* fs::read_to_string
read_to_string(t) ==
    IF is_file(t) /\ t.node.readable
    THEN [ok |-> TRUE, content |-> t.node.content]
    ELSE [ok |-> FALSE, content |-> <<>>]

(***************************************************************************)
(* Results and entries                                                     *)
(***************************************************************************)
Ok(entries, ms) == [ok |-> TRUE, err |-> "", entries |-> entries, matches |-> ms]
Err(msg) == [ok |-> FALSE, err |-> msg, entries |-> <<>>, matches |-> <<>>]
NoResult == [ok |-> FALSE, err |-> "pending", entries |-> <<>>, matches |-> <<>>]

\* children: Option<Vec<FileEntry>>; has_children is the Some/None tag
FileEntry(name, p, is_directory, has_children, children) ==
    [name |-> name, path |-> p, is_directory |-> is_directory,
     has_children |-> has_children, children |-> children]

\* "Skip hidden files and directories (except .graphnotes)"
hidden(name) == starts_with(name, ".") /\ name # GRAPHNOTES

\* the comparator without to_lowercase
cmp_entries_cased(a, b) ==
    IF a.is_directory /\ ~b.is_directory THEN -1
    ELSE IF ~a.is_directory /\ b.is_directory THEN 1
    ELSE cmp(a.name, b.name)

\* the comparator of list_directory and build_tree:
\* directories first, then by lower-cased name
cmp_entries(a, b) ==
    IF a.is_directory /\ ~b.is_directory THEN -1
    ELSE IF ~a.is_directory /\ b.is_directory THEN 1
    ELSE cmp(to_lowercase(a.name), to_lowercase(b.name))

\* the comparator of list_markdown_files: by lower-cased path
cmp_paths(a, b) == cmp(to_lowercase(a.path), to_lowercase(b.path))

compare(by, a, b) == IF by = "path" THEN cmp_paths(a, b) ELSE cmp_entries(a, b)

\* stable insertion of x into a sorted sequence
Insert(s, x, by) ==
    LET before == {i \in 1..Len(s) : compare(by, x, s[i]) < 0}
        k == IF before = {} THEN Len(s) + 1 ELSE MinOf(before)
    IN  SubSeq(s, 1, k - 1) \o <<x>> \o SubSeq(s, k, Len(s))

RECURSIVE sort_by(_, _)
\* Vec::sort_by (stable)
sort_by(s, by) ==
    IF s = <<>> THEN <<>>
    ELSE Insert(sort_by(SubSeq(s, 1, Len(s) - 1), by), s[Len(s)], by)

(***************************************************************************)
(* list_directory                                                          *)
(***************************************************************************)
RECURSIVE list_entries(_, _, _)
list_entries(items, i, entries) ==
    IF i > Len(items) THEN entries
    ELSE LET e == items[i]
             name == file_name(e.path)
         IN  IF hidden(name) THEN list_entries(items, i + 1, entries)
             ELSE list_entries(items, i + 1,
                      Append(entries, FileEntry(name, e.path, is_dir(e), FALSE, <<>>)))

list_directory(t) ==
    IF ~exists(t) THEN Err("Directory does not exist")
    ELSE IF ~is_dir(t) THEN Err("Path is not a directory")
    ELSE LET rd == read_dir(t)
         IN  IF ~rd.ok THEN Err("Failed to read directory")
             ELSE Ok(sort_by(list_entries(rd.items, 1, <<>>), "name"), <<>>)

(***************************************************************************)
(* get_file_tree                                                           *)
(***************************************************************************)
is_markdown(name) ==
    extension(name).some /\ extension(name).ext \in {MD, MARKDOWN}

\* a failed subtree taken as an empty one
propagates_never(sub) == FALSE

\* the ? on the recursive call: a failed subtree fails the caller
propagates(sub) == ~sub.ok

RECURSIVE build_tree(_, _)
RECURSIVE build_entries(_, _, _, _)

build_entries(items, i, entries, base_path) ==
    IF i > Len(items) THEN Ok(sort_by(entries, "name"), <<>>)
    ELSE LET e == items[i]
             name == file_name(e.path)
             is_directory == is_dir(e)
         IN  IF hidden(name) THEN build_entries(items, i + 1, entries, base_path)
             ELSE IF ~is_directory /\ ~is_markdown(name)
                  THEN build_entries(items, i + 1, entries, base_path)
             ELSE LET sub == IF is_directory THEN build_tree(e, base_path)
                                             ELSE Ok(<<>>, <<>>)
                  IN  IF propagates(sub) THEN sub
                      ELSE build_entries(items, i + 1,
                               Append(entries,
                                      FileEntry(name, strip_prefix(e.path, base_path),
                                                is_directory, is_directory, sub.entries)),
                               base_path)

build_tree(t, base_path) ==
    LET rd == read_dir(t)
    IN  IF ~rd.ok THEN Err("Failed to read directory")
        ELSE build_entries(rd.items, 1, <<>>, base_path)

get_file_tree(t) ==
    IF ~exists(t) THEN Err("Directory does not exist")
    ELSE build_tree(t, t.path)

(***************************************************************************)
(* WalkDir::new(path).follow_links(true).into_iter().filter_entry(..)      *)
(***************************************************************************)
\* the filter_entry predicate of list_markdown_files
admit_markdown(name) == ~starts_with(name, ".") \/ name = GRAPHNOTES

\* the filter_entry predicate of grep_search
admit_search(name) == ~starts_with(name, ".")

admit(cmd, name) == IF cmd = "grep_search" THEN admit_search(name)
                                           ELSE admit_markdown(name)

WalkOk(t) == [ok |-> TRUE, t |-> t]
WalkErr(t) == [ok |-> FALSE, t |-> t]

RECURSIVE WalkDir(_, _)
RECURSIVE WalkItems(_, _, _)

\* the items the filtered iterator yields, in order: every yielded entry
\* (the starting path included, at depth 0) passes the predicate; a rejected
\* directory is not descended into; a directory that cannot be opened is
\* yielded and followed by an error item
WalkDir(t, cmd) ==
    IF ~admit(cmd, file_name(t.path)) THEN <<>>
    ELSE IF ~is_dir(t) THEN <<WalkOk(t)>>
    ELSE LET rd == read_dir(t)
         IN  IF ~rd.ok THEN <<WalkOk(t), WalkErr(t)>>
             ELSE <<WalkOk(t)>> \o WalkItems(rd.items, 1, cmd)

WalkItems(items, i, cmd) ==
    IF i > Len(items) THEN <<>>
    ELSE WalkDir(items[i], cmd) \o WalkItems(items, i + 1, cmd)

(***************************************************************************)
(* list_markdown_files                                                     *)
(***************************************************************************)
RECURSIVE markdown_entries(_, _, _, _)
markdown_entries(w, i, entries, base_path) ==
    IF i > Len(w) THEN Ok(sort_by(entries, "path"), <<>>)
    ELSE IF ~w[i].ok THEN Err("Failed to read entry")
    ELSE LET e == w[i].t
             name == file_name(e.path)
         IN  IF is_file(e) /\ is_markdown(name)
             THEN markdown_entries(w, i + 1,
                      Append(entries,
                             FileEntry(name, strip_prefix(e.path, base_path),
                                       FALSE, FALSE, <<>>)),
                      base_path)
             ELSE markdown_entries(w, i + 1, entries, base_path)

list_markdown_files(t) ==
    IF ~exists(t) THEN Err("Directory does not exist")
    ELSE markdown_entries(WalkDir(t, "list_markdown_files"), 1, <<>>, t.path)

(***************************************************************************)
(* Regex::new, regex::escape, Regex::find on the fragment                  *)
(*   literal | . | ( r ) | r* | \m   with leftmost-first, greedy matching  *)
(***************************************************************************)
Lit(c) == [t |-> "lit", c |-> c, kids |-> <<>>]
AnyChar == [t |-> "any", c |-> "", kids |-> <<>>]
Cat(kids) == [t |-> "cat", c |-> "", kids |-> kids]
Star(r) == [t |-> "star", c |-> "", kids |-> <<r>>]

IsMeta(c) == c \in {"(", ")", "*", ".", "\\"}

RECURSIVE escape(_)
\* regex::escape: a backslash before every metacharacter
escape(p) ==
    IF p = <<>> THEN <<>>
    ELSE (IF IsMeta(p[1]) THEN <<"\\", p[1]>> ELSE <<p[1]>>) \o escape(Tail(p))

ParseFail == [ok |-> FALSE, node |-> Cat(<<>>), next |-> 0]

RECURSIVE ParseSeq(_, _, _, _)
\* parses a concatenation from position i; inGroup: a "(" is open
ParseSeq(p, i, acc, inGroup) ==
    IF i > Len(p)
    THEN IF inGroup THEN ParseFail                       \* unclosed group
         ELSE [ok |-> TRUE, node |-> Cat(acc), next |-> i]
    ELSE LET c == p[i]
         IN  CASE c = ")" ->
                    IF inGroup THEN [ok |-> TRUE, node |-> Cat(acc), next |-> i + 1]
                    ELSE ParseFail                       \* unopened group
               [] c = "(" ->
                    LET g == ParseSeq(p, i + 1, <<>>, TRUE)
                    IN  IF ~g.ok THEN ParseFail
                        ELSE ParseSeq(p, g.next, Append(acc, g.node), inGroup)
               [] c = "*" ->
                    IF acc = <<>> THEN ParseFail         \* nothing to repeat
                    ELSE ParseSeq(p, i + 1,
                             Append(SubSeq(acc, 1, Len(acc) - 1), Star(acc[Len(acc)])),
                             inGroup)
               [] c = "\\" ->
                    IF i + 1 <= Len(p) /\ IsMeta(p[i + 1])
                    THEN ParseSeq(p, i + 2, Append(acc, Lit(p[i + 1])), inGroup)
                    ELSE ParseFail
               [] c = "." -> ParseSeq(p, i + 1, Append(acc, AnyChar), inGroup)
               [] OTHER -> ParseSeq(p, i + 1, Append(acc, Lit(c)), inGroup)

\* Regex::new
Regex_new(p) == ParseSeq(p, 1, <<>>, FALSE)

\* the compilation without the literal fallback
compile_no_fallback(p) == Regex_new(p)

\* Regex::new(&pattern).or_else(|_| Regex::new(&regex::escape(&pattern)))
compile(p) == IF Regex_new(p).ok THEN Regex_new(p) ELSE Regex_new(escape(p))

RECURSIVE Ends(_, _, _)
RECURSIVE CatEnds(_, _, _, _)
RECURSIVE CatFrom(_, _, _, _, _)
RECURSIVE StarFrom(_, _, _, _, _)

\* the end offsets of the matches of r in s starting at offset i, in the
\* order a backtracking matcher prefers them
Ends(r, s, i) ==
    CASE r.t = "lit" -> IF i < Len(s) /\ s[i + 1] = r.c THEN <<i + 1>> ELSE <<>>
      [] r.t = "any" -> IF i < Len(s) /\ s[i + 1] # "\n" THEN <<i + 1>> ELSE <<>>
      [] r.t = "cat" -> CatEnds(r.kids, 1, s, i)
      [] OTHER -> StarFrom(Ends(r.kids[1], s, i), 1, r, s, i) \o <<i>>

CatEnds(kids, k, s, i) ==
    IF k > Len(kids) THEN <<i>>
    ELSE CatFrom(Ends(kids[k], s, i), 1, kids, k, s)

CatFrom(es, j, kids, k, s) ==
    IF j > Len(es) THEN <<>>
    ELSE CatEnds(kids, k + 1, s, es[j]) \o CatFrom(es, j + 1, kids, k, s)

\* one more iteration of a star (greedy); an iteration consumes input
StarFrom(es, j, r, s, i) ==
    IF j > Len(es) THEN <<>>
    ELSE (IF es[j] > i THEN Ends(r, s, es[j]) ELSE <<>>)
         \o StarFrom(es, j + 1, r, s, i)

NoMatch == [some |-> FALSE, start |-> 0, end |-> 0]

\* Regex::find: the leftmost match, 0-based offsets [start, end)
find(r, s) ==
    LET starts == {i \in 0..Len(s) : Ends(r, s, i) # <<>>}
    IN  IF starts = {} THEN NoMatch
        ELSE [some |-> TRUE, start |-> MinOf(starts),
              end |-> Head(Ends(r, s, MinOf(starts)))]

RECURSIVE str_lines(_)
\* str::lines: split at newlines; a final newline adds no empty line
\* (the contents in use hold no carriage return)
str_lines(s) ==
    LET nl == {i \in 1..Len(s) : s[i] = "\n"}
    IN  IF s = <<>> THEN <<>>
        ELSE IF nl = {} THEN <<s>>
        ELSE <<SubSeq(s, 1, MinOf(nl) - 1)>> \o str_lines(SubSeq(s, MinOf(nl) + 1, Len(s)))

GrepMatch(filepath, line_number, line_content, match_start, match_end) ==
    [filepath |-> filepath, line_number |-> line_number,
     line_content |-> line_content,
     match_start |-> match_start, match_end |-> match_end]

(***************************************************************************)
(* grep_search, one loop iteration per step                                *)
(***************************************************************************)
S_a == <<"a">>
S_astar == <<"a", "*">>
S_aparb == <<"a", "(", "b">>
S_group == <<"(", "a", ")", "b">>
S_star == <<"*">>
S_adotb == <<"a", ".", "b">>

\* the pattern texts a caller passes
Patterns == {<<>>, S_a, S_astar, S_aparb, S_group, S_star, S_adotb}

\* max_results: Option<usize>; -1 stands for None
MaxArgs == {-1} \cup 0..MaxCap

\* the walk loop without its cap test
outer_cap_never(n, m) == FALSE

\* if matches.len() >= max { break; }   (between walked entries)
outer_cap(n, m) == n >= m

\* the line loop testing the cap with > for >=
inner_cap_gt(n, m) == n > m

\* if matches.len() >= max { break; }   (between lines)
inner_cap(n, m) == n >= m

\* the line index used as it is, 0-based
line_number_zero(idx) == idx

\* line_number: line_idx + 1
line_number(idx) == idx + 1

\* a skipped entry ending the walk: break for continue
continue_break(w) == <<>>

\* the next item of the walk after a continue
continue(w) == Tail(w)

Init ==
    /\ fs \in Vaults
    /\ pc = "idle"
    /\ op = "none"
    /\ path = Target(<<>>, NoNode)
    /\ pattern = <<>>
    /\ max = 0
    /\ regex = Cat(<<>>)
    /\ walk = <<>>
    /\ relative_path = <<>>
    /\ lines = <<>>
    /\ line_idx = 0
    /\ matches = <<>>
    /\ result = NoResult
    /\ event = "none"

Finish(cmd, t, r) ==
    /\ op' = cmd
    /\ path' = t
    /\ result' = r
    /\ pc' = "done"
    /\ event' = "return"
    /\ UNCHANGED <<fs, pattern, max, regex, walk, relative_path, lines,
                   line_idx, matches>>

ListDirectory ==
    /\ pc = "idle"
    /\ \E t \in Targets(fs) : Finish("list_directory", t, list_directory(t))

ListMarkdownFiles ==
    /\ pc = "idle"
    /\ \E t \in Targets(fs) : Finish("list_markdown_files", t, list_markdown_files(t))

GetFileTree ==
    /\ pc = "idle"
    /\ \E t \in Targets(fs) : Finish("get_file_tree", t, get_file_tree(t))

\* lines 20-34: the checks and the compilation before the loop
GrepSearch ==
    /\ pc = "idle"
    /\ \E t \in Targets(fs), p \in Patterns, m \in MaxArgs :
          /\ op' = "grep_search"
          /\ path' = t
          /\ pattern' = p
          /\ max' = IF m = -1 THEN DefaultMax ELSE m
          /\ event' = "call"
          /\ IF ~exists(t)
             THEN /\ result' = Err("Directory does not exist")
                  /\ pc' = "done"
                  /\ UNCHANGED <<regex, walk, matches>>
             ELSE IF ~compile(p).ok
             THEN /\ result' = Err("Invalid pattern")
                  /\ pc' = "done"
                  /\ UNCHANGED <<regex, walk, matches>>
             ELSE /\ regex' = compile(p).node
                  /\ matches' = <<>>
                  /\ walk' = WalkDir(t, "grep_search")
                  /\ pc' = "walk"
                  /\ UNCHANGED result
    /\ UNCHANGED <<fs, relative_path, lines, line_idx>>

\* lines 36-76 and 96: one iteration of the loop over the walk
WalkNext ==
    /\ pc = "walk"
    /\ IF walk = <<>> \/ outer_cap(Len(matches), max)
       THEN /\ result' = Ok(<<>>, matches)
            /\ pc' = "done"
            /\ event' = IF walk = <<>> THEN "return" ELSE "break"
            /\ UNCHANGED <<walk, relative_path, lines, line_idx>>
       ELSE LET entry == Head(walk)
                name == file_name(entry.t.path)
                content == read_to_string(entry.t)
            IN  IF ~entry.ok \/ ~is_file(entry.t)
                   \/ extension(name).ext \notin {MD, MARKDOWN}
                   \/ ~extension(name).some
                THEN /\ walk' = continue(walk)
                     /\ event' = "skip"
                     /\ UNCHANGED <<pc, relative_path, lines, line_idx, result>>
                ELSE IF ~content.ok
                THEN /\ walk' = continue(walk)
                     /\ event' = "read_failed"
                     /\ UNCHANGED <<pc, relative_path, lines, line_idx, result>>
                ELSE /\ walk' = Tail(walk)
                     /\ relative_path' = strip_prefix(entry.t.path, path.path)
                     /\ lines' = str_lines(content.content)
                     /\ line_idx' = 0
                     /\ pc' = "lines"
                     /\ event' = "read"
                     /\ UNCHANGED result
    /\ UNCHANGED <<fs, op, path, pattern, max, regex, matches>>

\* lines 79-93: one iteration of the loop over the lines
LineStep ==
    /\ pc = "lines"
    /\ IF line_idx >= Len(lines) \/ inner_cap(Len(matches), max)
       THEN /\ pc' = "walk"
            /\ event' = IF line_idx >= Len(lines) THEN "eof" ELSE "break"
            /\ UNCHANGED <<line_idx, matches>>
       ELSE LET line == lines[line_idx + 1]
                m == find(regex, line)
            IN  /\ matches' = IF m.some
                              THEN Append(matches,
                                       GrepMatch(relative_path, line_number(line_idx), line,
                                                 m.start, m.end))
                              ELSE matches
                /\ line_idx' = line_idx + 1
                /\ event' = "test"
                /\ UNCHANGED pc
    /\ UNCHANGED <<fs, op, path, pattern, max, regex, walk, relative_path,
                   lines, result>>

\* the command has returned; the next call starts from a fresh state
Return ==
    /\ pc = "done"
    /\ pc' = "idle"
    /\ op' = "none"
    /\ path' = Target(<<>>, NoNode)
    /\ pattern' = <<>>
    /\ max' = 0
    /\ regex' = Cat(<<>>)
    /\ walk' = <<>>
    /\ relative_path' = <<>>
    /\ lines' = <<>>
    /\ line_idx' = 0
    /\ matches' = <<>>
    /\ result' = NoResult
    /\ event' = "none"
    /\ UNCHANGED fs

Next ==
    \/ ListDirectory
    \/ ListMarkdownFiles
    \/ GetFileTree
    \/ GrepSearch
    \/ WalkNext
    \/ LineStep
    \/ Return

Spec == Init /\ [][Next]_vars

(***************************************************************************)
(* Vocabulary of the properties                                            *)
(***************************************************************************)
Done(cmd) == pc = "done" /\ op = cmd

Listings == {"list_directory", "list_markdown_files", "get_file_tree"}

Range(s) == {s[i] : i \in 1..Len(s)}

RECURSIVE Components(_)
\* the components of a path string
Components(p) ==
    LET seps == {i \in 1..Len(p) : p[i] = "/"}
    IN  IF p = <<>> THEN <<>>
        ELSE IF seps = {} THEN <<p>>
        ELSE <<SubSeq(p, 1, MinOf(seps) - 1)>>
             \o Components(SubSeq(p, MinOf(seps) + 1, Len(p)))

RECURSIVE TreeEntries(_)
\* every entry of a tree, at any depth
TreeEntries(es) ==
    UNION {{es[i]} \cup TreeEntries(es[i].children) : i \in 1..Len(es)}

RECURSIVE Levels(_)
\* the top-level sequence and every children sequence of a tree
Levels(es) ==
    {es} \cup UNION {Levels(es[i].children) :
                         i \in {j \in 1..Len(es) : es[j].has_children}}

Kids(t) == {Target(join(t.path, t.node.kids[i].name), t.node.kids[i]) :
                i \in 1..Len(t.node.kids)}

RECURSIVE Under(_)
\* what lies below t on disk through names that are not hidden
Under(t) ==
    UNION {{k} \cup (IF is_dir(k) THEN Under(k) ELSE {}) :
               k \in {x \in Kids(t) : ~hidden(x.node.name)}}

RECURSIVE Readable(_)
\* the node without the entries below it that cannot be read
Readable(node) ==
    LET keep == SelectSeq(node.kids, LAMBDA k : k.readable)
    IN  [node EXCEPT !.kids = [i \in 1..Len(keep) |-> Readable(keep[i])]]

RECURSIVE LineMatches(_, _, _, _)
\* the first match of every line of a file from line i on, in line order
LineMatches(ls, i, rel, r) ==
    IF i > Len(ls) THEN <<>>
    ELSE (IF find(r, ls[i]).some
          THEN <<GrepMatch(rel, i, ls[i], find(r, ls[i]).start, find(r, ls[i]).end)>>
          ELSE <<>>)
         \o LineMatches(ls, i + 1, rel, r)

RECURSIVE WalkMatches(_, _, _, _)
\* the matches of all markdown files of a walk, in walk order
WalkMatches(w, i, base, r) ==
    IF i > Len(w) THEN <<>>
    ELSE (IF w[i].ok /\ is_file(w[i].t) /\ is_markdown(file_name(w[i].t.path))
          THEN LineMatches(str_lines(w[i].t.node.content), 1,
                           strip_prefix(w[i].t.path, base), r)
          ELSE <<>>)
         \o WalkMatches(w, i + 1, base, r)

\* what a search returns on the filesystem without its unreadable entries
Expected(t, r, m) ==
    LET all == WalkMatches(WalkDir(Target(t.path, Readable(t.node)), "grep_search"),
                           1, t.path, r)
    IN  SubSeq(all, 1, IF m < Len(all) THEN m ELSE Len(all))

\* the text p occurs in s
Contains(s, p) == \E i \in 0..(Len(s) - Len(p)) : SubSeq(s, i + 1, i + Len(p)) = p

Literal(p) == Cat([i \in 1..Len(p) |-> Lit(p[i])])

(***************************************************************************)
(* Properties                                                              *)
(***************************************************************************)

\* C1: at every step of a search the accumulated result count is at most
\* max, a returned sequence has at most max records, and max = 0 returns
\* the empty sequence.
C1_ResultWithinCap ==
    /\ pc \in {"walk", "lines"} => Len(matches) <= max
    /\ (Done("grep_search") /\ result.ok) =>
           /\ Len(result.matches) <= max
           /\ max = 0 => result.matches = <<>>

\* C1 witness: a search stopped by the cap with entries left to walk.
C1_Witness ==
    /\ Done("grep_search") /\ result.ok
    /\ max = MaxCap /\ Len(result.matches) = max /\ walk # <<>>

\* C2: a root that exists and is not a directory makes each of the four
\* operations return an error.
C2_NotADirectory ==
    (pc = "done" /\ op \in Listings \cup {"grep_search"}
        /\ exists(path) /\ ~is_dir(path)) => ~result.ok

\* C3: get_file_tree fails as a whole, with no entries, when any directory
\* of the admitted subtree cannot be read; a returned tree holds exactly the
\* admitted directories and markdown files of the subtree, every directory
\* with all its admitted children.
C3_BuildAllOrNothing ==
    (Done("get_file_tree") /\ is_dir(path)) =>
        LET dirs == {path} \cup {d \in Under(path) : is_dir(d)}
            mds == {f \in Under(path) : is_file(f) /\ is_markdown(f.node.name)}
            rel(S) == {strip_prefix(x.path, path.path) : x \in S}
            tree == TreeEntries(result.entries)
        IN  /\ (\E d \in dirs : ~d.node.readable) =>
                   (~result.ok /\ result.entries = <<>>)
            /\ result.ok =>
                   /\ {e.path : e \in {x \in tree : x.is_directory}}
                          = rel(dirs \ {path})
                   /\ {e.path : e \in {x \in tree : ~x.is_directory}} = rel(mds)
                   /\ \A e \in tree : e.is_directory <=> e.has_children
                   /\ \A d \in dirs \ {path} : \A e \in tree :
                          e.path = strip_prefix(d.path, path.path) =>
                              {c.name : c \in Range(e.children)}
                                  = {k.node.name :
                                        k \in {x \in Kids(d) : x \in dirs \cup mds}}

\* C3 witness: the build failed because of an unreadable directory two
\* levels down, the directories above it being readable.
C3_Witness ==
    /\ Done("get_file_tree") /\ is_dir(path) /\ ~result.ok
    /\ \E s \in Kids(path) : /\ is_dir(s) /\ s.node.readable /\ ~hidden(s.node.name)
                             /\ \E d \in Kids(s) : is_dir(d) /\ ~d.node.readable
    /\ \A s \in Kids(path) : is_dir(s) => s.node.readable

\* C4: a search of an existing, readable root never fails, and returns
\* exactly what it returns on the filesystem without the unreadable entries.
C4_BestEffort ==
    (Done("grep_search") /\ exists(path) /\ path.node.readable) =>
        /\ result.ok
        /\ result.matches = Expected(path, regex, max)

\* C4 witness: a search that passed an unreadable file and an unreadable
\* directory and still returned matches.
C4_Witness ==
    /\ Done("grep_search") /\ result.ok /\ result.matches # <<>>
    /\ \E f \in Kids(path) : is_file(f) /\ is_markdown(f.node.name) /\ ~f.node.readable
    /\ \E d \in Under(path) : is_dir(d) /\ ~d.node.readable

C6_HiddenAdmission ==
    /\ (pc = "done" /\ op \in Listings /\ result.ok) =>
           \A e \in TreeEntries(result.entries) :
               /\ ~hidden(e.name)
               /\ \A c \in Range(Components(strip_prefix(e.path, path.path))) :
                      ~hidden(c)
    /\ (pc = "done" /\ op \in Listings /\ result.ok /\ is_dir(path)) =>
           \A g \in {k \in Kids(path) : k.node.name = GRAPHNOTES /\ is_dir(k)} :
               IF op = "list_markdown_files"
               THEN \A f \in {k \in Kids(g) : is_file(k) /\ is_markdown(k.node.name)} :
                        \E i \in 1..Len(result.entries) :
                            result.entries[i].path = strip_prefix(f.path, path.path)
               ELSE \E i \in 1..Len(result.entries) :
                        result.entries[i].name = GRAPHNOTES
    /\ \A i \in 1..Len(matches) :
           \A c \in Range(Components(matches[i].filepath)) : ~starts_with(c, ".")

\* C7: every level of a list_directory or get_file_tree result has its
\* directories before its files, and lower-cased names non-decreasing among
\* neighbours of the same kind.
C7_SortInvariant ==
    (pc = "done" /\ op \in {"list_directory", "get_file_tree"} /\ result.ok) =>
        \A s \in Levels(result.entries) :
            /\ \A i, j \in 1..Len(s) :
                   (i < j /\ s[j].is_directory) => s[i].is_directory
            /\ \A i \in 1..(Len(s) - 1) :
                   s[i].is_directory = s[i + 1].is_directory =>
                       cmp(to_lowercase(s[i].name), to_lowercase(s[i + 1].name)) <= 0

\* C7 witness: a tree built from a directory enumerated out of order, in
\* which a.md stands right before B.md after a directory.
C7_Witness ==
    /\ Done("get_file_tree") /\ result.ok
    /\ \E i \in 1..(Len(path.node.kids) - 1) :
           cmp(path.node.kids[i].name, path.node.kids[i + 1].name) > 0
    /\ \E i \in 2..(Len(result.entries) - 1) :
           /\ result.entries[i - 1].is_directory
           /\ result.entries[i].name = <<"a", ".", "m", "d">>
           /\ result.entries[i + 1].name = <<"B", ".", "m", "d">>

\* C8: every listed entry's path is relative to the root argument: a
\* top-level path is the entry's name, a child's path is its parent's path,
\* the separator and its name; paths are pairwise distinct and the root is
\* not an entry.
C8_RelativePaths ==
    (pc = "done" /\ op \in Listings /\ result.ok) =>
        /\ op \in {"list_directory", "get_file_tree"} =>
               \A i \in 1..Len(result.entries) :
                   result.entries[i].path = result.entries[i].name
        /\ \A e \in TreeEntries(result.entries) :
               /\ e.path # <<>>
               /\ file_name(e.path) = e.name
               /\ Components(e.path) # Components(path.path)
               /\ \A c \in Range(e.children) : c.path = join(e.path, c.name)
        /\ \A s \in Levels(result.entries) :
               \A i, j \in 1..Len(s) : i # j => s[i].path # s[j].path

\* C9: a search of an existing root never fails with Invalid pattern; the
\* compiled pattern is the pattern's regex when it has one, and otherwise
\* the literal text: a tested line yields a match exactly when the text
\* occurs in it, at the text's position.
C9_PatternNeverRejected ==
    /\ (Done("grep_search") /\ exists(path)) => result.ok
    /\ pc \in {"walk", "lines"} =>
           regex = IF Regex_new(pattern).ok THEN Regex_new(pattern).node
                                            ELSE Literal(pattern)
    /\ (pc \in {"walk", "lines"} /\ ~Regex_new(pattern).ok) =>
           /\ \A i \in 1..Len(matches) :
                  SubSeq(matches[i].line_content, matches[i].match_start + 1,
                         matches[i].match_end) = pattern
           /\ (pc = "lines" /\ event = "test") =>
                  (Contains(lines[line_idx], pattern) <=>
                      /\ matches # <<>>
                      /\ matches[Len(matches)].line_number = line_idx
                      /\ matches[Len(matches)].filepath = relative_path)

\* C9 witness: the invalid pattern a(b found in the line a(b.
C9_Witness ==
    /\ Done("grep_search") /\ result.ok /\ pattern = S_aparb
    /\ ~Regex_new(pattern).ok
    /\ \E i \in 1..Len(result.matches) :
           /\ result.matches[i].line_content = <<"a", "(", "b">>
           /\ result.matches[i].match_start = 0
           /\ result.matches[i].match_end = 3

\* C10: once the result count has reached max, no step of the search reads
\* a file or tests a line.
C10_EarlyTermination ==
    [][(pc \in {"walk", "lines"} /\ Len(matches) >= max) =>
           event' \notin {"read", "read_failed", "test"}]_vars

\* C10 witness: the line loop was left at the cap with lines of the file
\* and entries of the walk still ahead.
C10_Witness ==
    /\ pc = "walk" /\ event = "break" /\ max > 0
    /\ line_idx < Len(lines) /\ walk # <<>>

====
